---------------------------- MODULE Spec2Model ----------------------------
(***************************************************************************)
(* Model of the "image build" command of konflux-build-cli:                *)
(*   - Build.Run and its stages (pkg/commands, src/unnamed/part_000)       *)
(*   - SearchDockerfile (pkg/common, src/unnamed/part_001 lines 371-448)   *)
(*                                                                         *)
(* A string is a sequence of symbols.  The symbols are "/", ".", one-letter*)
(* names, and the literals "Containerfile" and "Dockerfile", which the     *)
(* code only ever uses whole.  Prefix and suffix tests are literal tests on*)
(* these sequences, as strings.HasPrefix / strings.HasSuffix are on bytes. *)
(***************************************************************************)
EXTENDS Naturals, Sequences, FiniteSets, TLC

VARIABLES
    fs,                 \* the filesystem: absolute clean path -> node
    cwd,                \* the process working directory (absolute, clean)
    Params,             \* Build.Params (BuildParams)
    containerfilePath,  \* Build.containerfilePath
    Results,            \* Build.Results (BuildResults)
    pc,                 \* position of Build.Run
    err,                \* value returned by Build.Run ("" is nil)
    stdout,             \* what fmt.Print wrote to standard output
    calls,              \* adapter invocations observed, in order
    stages,             \* stages of Run entered, in order
    opts,               \* DockerfileSearchOpts handed to SearchDockerfile
    found,              \* what SearchDockerfile returned
    cmd,                \* the command line: flags supplied, arguments after "--"
    environ             \* the environment variables of the process

vars == <<fs, cwd, Params, containerfilePath, Results, pc, err, stdout,
          calls, stages, opts, found, cmd, environ>>

-----------------------------------------------------------------------------
(* Strings *)

SLASH == "/"
DOT == "."
DotStr == <<".">>
DotDot == <<".", ".">>

HasPrefix(s, p) == Len(p) <= Len(s) /\ SubSeq(s, 1, Len(p)) = p

HasSuffix(s, p) == Len(p) <= Len(s) /\ SubSeq(s, Len(s) - Len(p) + 1, Len(s)) = p

Last(s) == s[Len(s)]

Front(s) == SubSeq(s, 1, Len(s) - 1)

IsRooted(s) == s # <<>> /\ s[1] = SLASH

\* The non-empty components of s between slashes, in order.
RECURSIVE Components(_)
Components(s) ==
    IF s = <<>> THEN <<>>
    ELSE IF s[1] = SLASH THEN Components(Tail(s))
    ELSE LET n == IF \E i \in 1..Len(s) : s[i] = SLASH
                  THEN (CHOOSE i \in 1..Len(s) :
                            s[i] = SLASH /\ \A j \in 1..(i-1) : s[j] # SLASH) - 1
                  ELSE Len(s)
         IN <<SubSeq(s, 1, n)>> \o Components(SubSeq(s, n + 1, Len(s)))

\* strings.Join(comps, "/")
RECURSIVE JoinSlash(_)
JoinSlash(comps) ==
    IF comps = <<>> THEN <<>>
    ELSE IF Len(comps) = 1 THEN comps[1]
    ELSE comps[1] \o <<SLASH>> \o JoinSlash(Tail(comps))

\* The component stack filepath.Clean keeps while it reads comps.
RECURSIVE CleanStack(_, _, _)
CleanStack(rooted, stack, comps) ==
    IF comps = <<>> THEN stack
    ELSE LET c == Head(comps) IN
         IF c = DotStr THEN CleanStack(rooted, stack, Tail(comps))
         ELSE IF c = DotDot THEN
              IF stack # <<>> /\ Last(stack) # DotDot
              THEN CleanStack(rooted, Front(stack), Tail(comps))
              ELSE IF rooted THEN CleanStack(rooted, stack, Tail(comps))
              ELSE CleanStack(rooted, Append(stack, c), Tail(comps))
         ELSE CleanStack(rooted, Append(stack, c), Tail(comps))

\* filepath.Clean
Clean(s) ==
    IF s = <<>> THEN DotStr
    ELSE LET stack == CleanStack(IsRooted(s), <<>>, Components(s)) IN
         IF IsRooted(s) THEN <<SLASH>> \o JoinSlash(stack)
         ELSE IF stack = <<>> THEN DotStr
         ELSE JoinSlash(stack)

\* filepath.Join of a sequence of elements
JoinPath(elems) ==
    LET nonEmpty == SelectSeq(elems, LAMBDA e : e # <<>>) IN
    IF nonEmpty = <<>> THEN <<>> ELSE Clean(JoinSlash(nonEmpty))


-----------------------------------------------------------------------------
(* The filesystem *)

Root == <<SLASH>>
DirS == <<SLASH, "s">>                      \* /s   the source tree
DirC == <<SLASH, "s", SLASH, "c">>          \* /s/c a directory inside it
DirSx == <<SLASH, "s", "x">>                \* /sx  a sibling of /s
FileSxF == <<SLASH, "s", "x", SLASH, "f">>  \* /sx/f
DirO == <<SLASH, "o">>                      \* /o   outside the source tree
FileOF == <<SLASH, "o", SLASH, "f">>        \* /o/f
LinkL == <<SLASH, "l">>                     \* /l -> /s

Containerfile == <<"Containerfile">>
Dockerfile == <<"Dockerfile">>

None == [t |-> "none", to |-> <<>>]
Dir == [t |-> "dir", to |-> <<>>]
File == [t |-> "file", to |-> <<>>]
Link(target) == [t |-> "link", to |-> target]

\* The places where a build definition file may lie.
Slots == { d \o <<SLASH>> \o n : d \in {DirS, DirC}, n \in {Containerfile, Dockerfile} }

\* Where a symbolic link in a slot may point: a relative path leaving the
\* directory of the link, a file of the sibling /sx, a file beside the link.
LinkTargets == { <<DOT, DOT, SLASH, "o", SLASH, "f">>, FileSxF, Dockerfile }

SlotKinds == {None, File, Dir} \cup { Link(x) : x \in LinkTargets }

\* At most this many slots hold a symbolic link.
MaxFsLinks == 1

FixedNodes ==
    (Root :> Dir) @@ (DirS :> Dir) @@ (DirC :> Dir) @@ (DirSx :> Dir) @@
    (FileSxF :> File) @@ (DirO :> Dir) @@ (FileOF :> File) @@ (LinkL :> Link(DirS))

\* No slot links to itself: the family holds no cycle of links.
Filesystems ==
    { FixedNodes @@ k : k \in { a \in [Slots -> SlotKinds] :
          /\ Cardinality({ p \in Slots : a[p].t = "link" }) <= MaxFsLinks
          /\ \A p \in Slots : a[p] = Link(Dockerfile) => Last(p) = "Containerfile" } }

\* The node at absolute clean path p, None when there is none.
Node(f, p) == IF p \in DOMAIN f THEN f[p] ELSE None

\* The absolute clean path that path s names in working directory wd,
\* symbolic links not followed.
AbsOf(wd, s) == IF IsRooted(s) THEN Clean(s) ELSE Clean(wd \o <<SLASH>> \o s)

OkPath(p) == [err |-> "", path |-> p]
ErrPath(e) == [err |-> e, path |-> <<>>]

\* The text of the path kept as the components dest.
DestStr(rooted, dest) == IF rooted THEN <<SLASH>> \o JoinSlash(dest) ELSE JoinSlash(dest)

\* filepath.EvalSymlinks (walkSymlinks): dest is the resolved part, rest the
\* components still to read.  A link replaces the component it was read from.
RECURSIVE WalkSymlinks(_, _, _, _, _)
WalkSymlinks(f, wd, rooted, dest, rest) ==
    IF rest = <<>> THEN OkPath(Clean(DestStr(rooted, dest)))
    ELSE LET c == Head(rest) IN
         IF c = DotStr THEN WalkSymlinks(f, wd, rooted, dest, Tail(rest))
         ELSE IF c = DotDot THEN
              IF Len(dest) <= 1 \/ Last(dest) = DotDot
              THEN WalkSymlinks(f, wd, rooted, Append(dest, c), Tail(rest))
              ELSE WalkSymlinks(f, wd, rooted, Front(dest), Tail(rest))
         ELSE LET d == Append(dest, c)
                  n == Node(f, AbsOf(wd, DestStr(rooted, d)))
              IN IF n.t = "none" THEN ErrPath("ENOENT")
                 ELSE IF n.t = "file" THEN
                      IF Tail(rest) # <<>> THEN ErrPath("ENOTDIR")
                      ELSE WalkSymlinks(f, wd, rooted, d, Tail(rest))
                 ELSE IF n.t = "dir" THEN WalkSymlinks(f, wd, rooted, d, Tail(rest))
                 ELSE IF IsRooted(n.to)
                      THEN WalkSymlinks(f, wd, TRUE, <<>>, Components(n.to) \o Tail(rest))
                      ELSE WalkSymlinks(f, wd, rooted, dest, Components(n.to) \o Tail(rest))

EvalSymlinks(f, wd, s) ==
    IF s = <<>> THEN OkPath(DotStr)
    ELSE WalkSymlinks(f, wd, IsRooted(s), <<>>, Components(s))

\* os.Stat: the node that s names once every symbolic link is followed.
Stat(f, wd, s) ==
    LET r == EvalSymlinks(f, wd, s) IN
    IF s = <<>> THEN [err |-> "ENOENT", node |-> None]
    ELSE IF r.err # "" THEN [err |-> r.err, node |-> None]
    ELSE [err |-> "", node |-> Node(f, AbsOf(wd, r.path))]

-----------------------------------------------------------------------------
(* Image references *)

UpperCase == {"B"}

\* common.GetImageName: the reference without its tag.
GetImageName(ref) ==
    LET colons == { i \in 1..Len(ref) :
                      ref[i] = ":" /\ \A j \in (i+1)..Len(ref) : ref[j] # SLASH }
    IN IF colons = {} THEN ref
       ELSE SubSeq(ref, 1, (CHOOSE i \in colons : \A j \in colons : i <= j) - 1)

\* common.IsImageNameValid: lower-case, slash-separated, non-empty components.
IsImageNameValid(name) ==
    /\ name # <<>>
    /\ name[1] # SLASH /\ Last(name) # SLASH
    /\ \A i \in 1..Len(name) : name[i] \notin UpperCase /\ name[i] # ":"
    /\ \A i \in 1..(Len(name) - 1) : ~(name[i] = SLASH /\ name[i+1] = SLASH)

-----------------------------------------------------------------------------
(* Build.Run *)

NoErr == ""
ErrOutputRef == "output-ref is invalid"
ErrContextNotExist == "context directory does not exist"
ErrContextStat == "failed to stat context directory"
ErrContextNotDir == "context path is not a directory"
ErrNotFound == "containerfile not found"
ErrNoContainerfile == "no Containerfile or Dockerfile found in context directory"
ErrBuild == "buildah build failed"
ErrPush == "buildah push failed"
ErrResultJson == "failed to create results json"

\* validateParams without the test of line 160.
validateParams_NoDirCheck(f, wd, p) ==
    IF ~IsImageNameValid(GetImageName(p.OutputRef)) THEN ErrOutputRef
    ELSE LET st == Stat(f, wd, p.Context) IN
         IF st.err # "" THEN
              IF st.err = "ENOENT" THEN ErrContextNotExist ELSE ErrContextStat
         ELSE NoErr

\* Build.validateParams: the error it returns.
validateParams(f, wd, p) ==
    IF ~IsImageNameValid(GetImageName(p.OutputRef)) THEN ErrOutputRef
    ELSE LET st == Stat(f, wd, p.Context) IN
         IF st.err # "" THEN
              IF st.err = "ENOENT" THEN ErrContextNotExist ELSE ErrContextStat
         ELSE IF st.node.t # "dir" THEN ErrContextNotDir
         ELSE NoErr

\* The test of lines 170, 178 and 191: the path names something that is
\* not a directory.
IsExistingNonDir(f, wd, path) ==
    LET st == Stat(f, wd, path) IN st.err = "" /\ st.node.t # "dir"

\* autoDetect that settles for the last candidate instead of failing.
autoDetect_DefaultsToLast(f, wd, context, candidates) ==
    LET hits == { i \in DOMAIN candidates :
                    IsExistingNonDir(f, wd, JoinPath(<<context, candidates[i]>>)) }
    IN IF hits = {}
       THEN [err |-> NoErr, path |-> JoinPath(<<context, candidates[Len(candidates)]>>)]
       ELSE [err |-> NoErr,
             path |-> JoinPath(<<context, candidates[CHOOSE i \in hits : \A j \in hits : i <= j]>>)]

\* The first of candidates, joined onto the context, that passes the test.
RECURSIVE autoDetect(_, _, _, _)
autoDetect(f, wd, context, candidates) ==
    IF candidates = <<>> THEN [err |-> ErrNoContainerfile, path |-> <<>>]
    ELSE LET candidatePath == JoinPath(<<context, Head(candidates)>>) IN
         IF IsExistingNonDir(f, wd, candidatePath)
         THEN [err |-> NoErr, path |-> candidatePath]
         ELSE autoDetect(f, wd, context, Tail(candidates))

\* detectContainerfile trying the path under the context directory first.
detectContainerfile_FallbackFirst(f, wd, p) ==
    IF p.Containerfile # <<>> THEN
         LET fallbackPath == JoinPath(<<p.Context, p.Containerfile>>) IN
         IF IsExistingNonDir(f, wd, fallbackPath)
         THEN [err |-> NoErr, path |-> fallbackPath]
         ELSE IF IsExistingNonDir(f, wd, p.Containerfile)
              THEN [err |-> NoErr, path |-> p.Containerfile]
              ELSE [err |-> ErrNotFound, path |-> <<>>]
    ELSE autoDetect(f, wd, p.Context, <<Containerfile, Dockerfile>>)

\* Build.detectContainerfile: the error it returns and the path it stores.
detectContainerfile(f, wd, p) ==
    IF p.Containerfile # <<>> THEN
         IF IsExistingNonDir(f, wd, p.Containerfile)
         THEN [err |-> NoErr, path |-> p.Containerfile]
         ELSE LET fallbackPath == JoinPath(<<p.Context, p.Containerfile>>) IN
              IF IsExistingNonDir(f, wd, fallbackPath)
              THEN [err |-> NoErr, path |-> fallbackPath]
              ELSE [err |-> ErrNotFound, path |-> <<>>]
    ELSE autoDetect(f, wd, p.Context, <<Containerfile, Dockerfile>>)

\* encoding/json of a BuildResults: digest carries omitempty.
ResultJson(r) ==
    <<<<"image_url", r.ImageUrl>>>> \o
    (IF r.Digest = <<>> THEN <<>> ELSE <<<<"digest", r.Digest>>>>)

\* The builder invocation with the context directory in the place of the file.
BuildCall_ContextAsFile(path, context, ref, e) ==
    [op |-> "Build", Containerfile |-> context, ContextDir |-> context,
     OutputRef |-> ref, ExtraArgs |-> <<>>, Image |-> <<>>, Result |-> <<>>,
     digest |-> <<>>, err |-> e]

\* An adapter invocation as the adapter sees it, with what it answered. The
\* BuildahBuildArgs literal of lines 204-208 sets three fields; whatever else
\* the builder could be handed (ExtraArgs) keeps its zero value.
BuildCall(path, context, ref, e) ==
    [op |-> "Build", Containerfile |-> path, ContextDir |-> context,
     OutputRef |-> ref, ExtraArgs |-> <<>>, Image |-> <<>>, Result |-> <<>>,
     digest |-> <<>>, err |-> e]
PushCall(image, a) ==
    [op |-> "Push", Containerfile |-> <<>>, ContextDir |-> <<>>,
     OutputRef |-> <<>>, ExtraArgs |-> <<>>, Image |-> image, Result |-> <<>>,
     digest |-> a.digest, err |-> a.err]
WriterCall(r, e) ==
    [op |-> "CreateResultJson", Containerfile |-> <<>>, ContextDir |-> <<>>,
     OutputRef |-> <<>>, ExtraArgs |-> <<>>, Image |-> <<>>, Result |-> r,
     digest |-> <<>>, err |-> e]

\* What the adapters may answer.
BuildErrors == {NoErr, ErrBuild}
Digests == { <<"sha256", ":", "1">>, <<>> }
PushAnswers == { [digest |-> d, err |-> NoErr] : d \in Digests }
                   \cup { [digest |-> <<>>, err |-> ErrPush] }
WriterErrors == {NoErr, ErrResultJson}

\* The inputs of a run.
OutputRefs == { <<"a", SLASH, "b", ":", "t">>, <<"a", SLASH, "B">>,
                <<"a", SLASH, SLASH, "b">> }
Contexts == { <<"c">>, DotStr, <<"n">>, FileOF }
Containerfiles == { <<>>, Dockerfile, FileSxF }
ParamSets ==
    [Containerfile : Containerfiles, Context : Contexts,
     OutputRef : OutputRefs, Push : BOOLEAN]

\* The parameters of the build command.
ParamNames == {"containerfile", "context", "output-ref", "push"}

\* The registry with "" declared as the default of context.
BuildParamsConfig_ContextDefaultEmpty ==
    [n \in ParamNames |->
       CASE n = "containerfile" ->
              [EnvVarName |-> "KBC_BUILD_CONTAINERFILE", TypeKind |-> "String",
               DefaultValue |-> <<>>, Required |-> FALSE]
         [] n = "context" ->
              [EnvVarName |-> "KBC_BUILD_CONTEXT", TypeKind |-> "String",
               DefaultValue |-> <<>>, Required |-> FALSE]
         [] n = "output-ref" ->
              [EnvVarName |-> "KBC_BUILD_OUTPUT_REF", TypeKind |-> "String",
               DefaultValue |-> <<>>, Required |-> TRUE]
         [] n = "push" ->
              [EnvVarName |-> "KBC_BUILD_PUSH", TypeKind |-> "Bool",
               DefaultValue |-> <<"false">>, Required |-> FALSE]]

\* BuildParamsConfig: of each parameter the environment variable, the type,
\* the default (none declared for output-ref) and whether it is required.
BuildParamsConfig ==
    [n \in ParamNames |->
       CASE n = "containerfile" ->
              [EnvVarName |-> "KBC_BUILD_CONTAINERFILE", TypeKind |-> "String",
               DefaultValue |-> <<>>, Required |-> FALSE]
         [] n = "context" ->
              [EnvVarName |-> "KBC_BUILD_CONTEXT", TypeKind |-> "String",
               DefaultValue |-> DotStr, Required |-> FALSE]
         [] n = "output-ref" ->
              [EnvVarName |-> "KBC_BUILD_OUTPUT_REF", TypeKind |-> "String",
               DefaultValue |-> <<>>, Required |-> TRUE]
         [] n = "push" ->
              [EnvVarName |-> "KBC_BUILD_PUSH", TypeKind |-> "Bool",
               DefaultValue |-> <<"false">>, Required |-> FALSE]]

EnvVarNames == { BuildParamsConfig[n].EnvVarName : n \in ParamNames }

\* A flag or an environment variable: absent, or present with a text.
Unset == [set |-> FALSE, v |-> <<>>]
Given(text) == [set |-> TRUE, v |-> text]

\* Binding errors.
ErrRequired(name) ==
    CASE name = "containerfile" -> "required parameter containerfile is not set"
      [] name = "context" -> "required parameter context is not set"
      [] name = "output-ref" -> "required parameter output-ref is not set"
      [] name = "push" -> "required parameter push is not set"
ErrBuildahCli == "buildah is not available"

\* The texts a boolean parameter is read from.
ParseBool(text) == text = <<"true">>

\* The text bound to parameter name: the flag when supplied, else the
\* environment variable when set, else the declared default.
RawValue(c, registry, e, name) ==
    IF c.flags[name].set THEN c.flags[name].v
    ELSE IF e[registry[name].EnvVarName].set THEN e[registry[name].EnvVarName].v
    ELSE registry[name].DefaultValue

\* The required parameters that neither source gives a value.
MissingRequired(c, registry, e) ==
    { n \in ParamNames : /\ registry[n].Required
                         /\ ~c.flags[n].set
                         /\ ~e[registry[n].EnvVarName].set }

ZeroParams == [Containerfile |-> <<>>, Context |-> <<>>, OutputRef |-> <<>>, Push |-> FALSE]

\* common.ParseParameters: the error it returns and the BuildParams it fills,
\* each field from the parameter its paramName tag names (lines 51-56).
ParseParameters(c, registry, e) ==
    LET missing == MissingRequired(c, registry, e) IN
    IF missing # {}
    THEN [err |-> ErrRequired(CHOOSE n \in missing : TRUE), params |-> ZeroParams]
    ELSE [err |-> NoErr,
          params |-> [Containerfile |-> RawValue(c, registry, e, "containerfile"),
                      Context |-> RawValue(c, registry, e, "context"),
                      OutputRef |-> RawValue(c, registry, e, "output-ref"),
                      Push |-> ParseBool(RawValue(c, registry, e, "push"))]]

\* NewBuild carrying on after a binding error.
NewBuild_IgnoresBindingError(c, e, wrapperErr) ==
    LET b == ParseParameters(c, BuildParamsConfig, e) IN
    IF wrapperErr # NoErr THEN [err |-> wrapperErr, built |-> FALSE, Params |-> ZeroParams]
    ELSE [err |-> NoErr, built |-> TRUE, Params |-> b.params]

\* NewBuild (lines 76-92): the error it returns, whether a Build is returned,
\* and the Params of that Build. wrapperErr is what initCliWrappers answers.
NewBuild(c, e, wrapperErr) ==
    LET b == ParseParameters(c, BuildParamsConfig, e) IN
    IF b.err # NoErr THEN [err |-> b.err, built |-> FALSE, Params |-> ZeroParams]
    ELSE IF wrapperErr # NoErr
         THEN [err |-> wrapperErr, built |-> FALSE, Params |-> ZeroParams]
         ELSE [err |-> NoErr, built |-> TRUE, Params |-> b.params]

NoCmd == [flags |-> [n \in ParamNames |-> Unset], args |-> <<>>]
NoEnviron == [v \in EnvVarNames |-> Unset]

NoOpts == [SourceDir |-> <<>>, ContextDir |-> <<>>, Dockerfile |-> <<>>]
NoFound == [called |-> FALSE, path |-> <<>>, err |-> NoErr]
NoResults == [ImageUrl |-> <<>>, Digest |-> <<>>]

Init ==
    /\ fs \in Filesystems
    /\ cwd = DirS
    /\ Params \in ParamSets
    /\ containerfilePath = <<>>
    /\ Results = NoResults
    /\ pc = "logParams"
    /\ err = NoErr
    /\ stdout = <<>>
    /\ calls = <<>>
    /\ stages = <<>>
    /\ opts = NoOpts
    /\ found = NoFound
    /\ cmd = NoCmd
    /\ environ = NoEnviron

Env == <<fs, cwd, Params, opts, found, cmd, environ>>

\* Run returns e.
Return(e) == pc' = "done" /\ err' = e

\* line 107
RunLogParams ==
    /\ pc = "logParams"
    /\ stages' = Append(stages, "logParams")
    /\ pc' = "validateParams"
    /\ UNCHANGED <<Env, containerfilePath, Results, err, stdout, calls>>

\* lines 109-111
RunValidateParams ==
    /\ pc = "validateParams"
    /\ stages' = Append(stages, "validateParams")
    /\ LET e == validateParams(fs, cwd, Params) IN
         IF e # NoErr THEN Return(e)
         ELSE pc' = "detectContainerfile" /\ err' = err
    /\ UNCHANGED <<Env, containerfilePath, Results, stdout, calls>>

\* lines 113-115
RunDetectContainerfile ==
    /\ pc = "detectContainerfile"
    /\ stages' = Append(stages, "detectContainerfile")
    /\ LET r == detectContainerfile(fs, cwd, Params) IN
         /\ containerfilePath' = IF r.err = NoErr THEN r.path ELSE containerfilePath
         /\ IF r.err # NoErr THEN Return(r.err)
            ELSE pc' = "buildImage" /\ err' = err
    /\ UNCHANGED <<Env, Results, stdout, calls>>

\* The builder's error swallowed.
BuildHalts_Never(e) == FALSE

\* line 117: the builder's error ends the run.
BuildHalts(e) == e # NoErr

\* line 121
ResultAfterBuild(r, p) == [r EXCEPT !.ImageUrl = p.OutputRef]

\* The push flag ignored.
AfterBuild_AlwaysPush(p) == "pushImage"

\* line 123: where Run goes once the image is built.
AfterBuild(p) == IF p.Push THEN "pushImage" ELSE "createResultJson"

\* lines 117-123
RunBuildImage ==
    /\ pc = "buildImage"
    /\ stages' = Append(stages, "buildImage")
    /\ \E e \in BuildErrors :
         /\ calls' = Append(calls, BuildCall(containerfilePath, Params.Context,
                                             Params.OutputRef, e))
         /\ IF BuildHalts(e) THEN Return(e) /\ Results' = Results
            ELSE /\ Results' = ResultAfterBuild(Results, Params)
                 /\ pc' = AfterBuild(Params)
                 /\ err' = err
    /\ UNCHANGED <<Env, containerfilePath, stdout>>

\* The pusher's error swallowed.
PushHalts_Never(e) == FALSE

\* line 125: the pusher's error ends the run.
PushHalts(e) == e # NoErr

\* The digest not recorded.
ResultAfterPush_Dropped(r, digest) == r

\* line 128
ResultAfterPush(r, digest) == [r EXCEPT !.Digest = digest]

\* Run going back to the builder after the push.
AfterPush_Rebuild == "buildImage"

\* Where Run goes once the image is pushed (line 131).
AfterPush == "createResultJson"

\* lines 124-129
RunPushImage ==
    /\ pc = "pushImage"
    /\ stages' = Append(stages, "pushImage")
    /\ \E a \in PushAnswers :
         /\ calls' = Append(calls, PushCall(Params.OutputRef, a))
         /\ IF PushHalts(a.err) THEN Return(a.err) /\ Results' = Results
            ELSE /\ Results' = ResultAfterPush(Results, a.digest)
                 /\ pc' = AfterPush
                 /\ err' = err
    /\ UNCHANGED <<Env, containerfilePath, stdout>>

\* lines 131-132: standard output once the writer answered e.
Printed(out, r, e) == IF e = NoErr THEN Append(out, ResultJson(r)) ELSE out

\* The writer's error logged and not returned.
WriterReturn_Nil(e) == NoErr

\* lines 133-138: what Run returns once the writer answered e.
WriterReturn(e) == IF e = NoErr THEN NoErr ELSE e

\* lines 131-138
RunCreateResultJson ==
    /\ pc = "createResultJson"
    /\ stages' = Append(stages, "createResultJson")
    /\ \E e \in WriterErrors :
         /\ calls' = Append(calls, WriterCall(Results, e))
         /\ stdout' = Printed(stdout, Results, e)
         /\ Return(WriterReturn(e))
    /\ UNCHANGED <<Env, containerfilePath, Results>>

Next ==
    \/ RunLogParams
    \/ RunValidateParams
    \/ RunDetectContainerfile
    \/ RunBuildImage
    \/ RunPushImage
    \/ RunCreateResultJson

Spec == Init /\ [][Next]_vars

-----------------------------------------------------------------------------
(* The build command: BuildCmd.Run *)

\* The command lines and environments of an invocation.
FlagSets ==
    { f \in [ParamNames -> { Unset, Given(Dockerfile), Given(<<"c">>),
                             Given(<<"a", SLASH, "b", ":", "t">>),
                             Given(<<"true">>), Given(<<"false">>) }] :
        /\ f["containerfile"] \in { Unset, Given(Dockerfile) }
        /\ f["context"] \in { Unset, Given(<<"c">>) }
        /\ f["output-ref"] \in { Unset, Given(<<"a", SLASH, "b", ":", "t">>) }
        /\ f["push"] \in { Unset, Given(<<"true">>), Given(<<"false">>) } }
ExtraArgSets == { <<>>, <<"--compat-volumes", "--force-rm">> }
Environs ==
    { e \in [EnvVarNames -> { Unset, Given(FileSxF), Given(DotStr),
                              Given(<<"a", SLASH, "b">>), Given(<<"true">>) }] :
        /\ e["KBC_BUILD_CONTAINERFILE"] \in { Unset, Given(FileSxF) }
        /\ e["KBC_BUILD_CONTEXT"] \in { Unset, Given(DotStr) }
        /\ e["KBC_BUILD_OUTPUT_REF"] \in { Unset, Given(<<"a", SLASH, "b">>) }
        /\ e["KBC_BUILD_PUSH"] \in { Unset, Given(<<"true">>) } }

\* The filesystems of an invocation: plain files, in the source directory.
CmdFilesystems ==
    { f \in Filesystems :
        /\ \A p \in Slots : f[p].t \in {"none", "file"}
        /\ f[DirC \o <<SLASH>> \o Containerfile].t = "none"
        /\ f[DirC \o <<SLASH>> \o Dockerfile].t = "none" }

WrapperErrors == {NoErr, ErrBuildahCli}

CmdInit ==
    /\ fs \in CmdFilesystems
    /\ cwd = DirS
    /\ cmd \in [flags : FlagSets, args : ExtraArgSets]
    /\ environ \in Environs
    /\ Params = ZeroParams
    /\ containerfilePath = <<>>
    /\ Results = NoResults
    /\ pc = "NewBuild"
    /\ err = NoErr
    /\ stdout = <<>>
    /\ calls = <<>>
    /\ stages = <<>>
    /\ opts = NoOpts
    /\ found = NoFound

\* build.go lines 35-38: NewBuild, and Fatal when it returns an error; Run
\* starts on the Build returned otherwise.
CmdNewBuild ==
    /\ pc = "NewBuild"
    /\ \E w \in WrapperErrors :
         LET r == NewBuild(cmd, environ, w) IN
         /\ Params' = r.Params
         /\ err' = r.err
         /\ pc' = IF r.built THEN "logParams" ELSE "fatal"
    /\ UNCHANGED <<fs, cwd, opts, found, cmd, environ, containerfilePath, Results,
                   stdout, calls, stages>>

CmdNext == CmdNewBuild \/ Next

CmdSpec == CmdInit /\ [][CmdNext]_vars

-----------------------------------------------------------------------------
(* SearchDockerfile *)

ErrMissingSourceDir == "Missing source directory"
ErrEvalSymlink == "Error on evaluating symlink for Dockerfile path"
ErrOutside == "Dockerfile is outside of the source directory"

\* os.IsNotExist answering true to every error.
IsNotExist_AnyError(e) == e # ""

\* os.IsNotExist
IsNotExist(e) == e = "ENOENT"

\* Lines 420-422: the source directory, slash-terminated.
SlashTerminated(sourceDir) ==
    IF ~HasSuffix(sourceDir, <<SLASH>>) THEN sourceDir \o <<SLASH>> ELSE sourceDir

\* Lines 423-426: what a candidate that resolved to realPath yields.
Accept(sourceDir, realPath) ==
    IF ~HasPrefix(realPath, SlashTerminated(sourceDir))
    THEN [path |-> <<>>, err |-> ErrOutside]
    ELSE [path |-> realPath, err |-> NoErr]

\* The loop failing when no candidate is left.
probe_ErrWhenNone(f, wd, sourceDir, possibleDockerfiles) ==
    LET hits == { i \in DOMAIN possibleDockerfiles :
                    EvalSymlinks(f, wd, possibleDockerfiles[i]).err # "ENOENT" }
    IN IF hits = {} THEN [path |-> <<>>, err |-> "not found"]
       ELSE LET r == EvalSymlinks(f, wd,
                        possibleDockerfiles[CHOOSE i \in hits : \A j \in hits : i <= j])
            IN IF r.err # "" THEN [path |-> <<>>, err |-> ErrEvalSymlink]
               ELSE Accept(sourceDir, r.path)

\* The loop of lines 414-430 over possibleDockerfiles.
RECURSIVE probe(_, _, _, _)
probe(f, wd, sourceDir, possibleDockerfiles) ==
    IF possibleDockerfiles = <<>> THEN [path |-> <<>>, err |-> NoErr]
    ELSE LET r == EvalSymlinks(f, wd, Head(possibleDockerfiles)) IN
         IF r.err # "" THEN
              IF ~IsNotExist(r.err) THEN [path |-> <<>>, err |-> ErrEvalSymlink]
              ELSE probe(f, wd, sourceDir, Tail(possibleDockerfiles))
         ELSE Accept(sourceDir, r.path)

\* Line 409: the closure assigns to the contextDir it captured.
searchContextDir(sourceDir, contextDir) == JoinPath(<<sourceDir, contextDir>>)

\* _search probing the source directory before the context directory.
search_SourceFirst(f, wd, sourceDir, contextDir, dockerfile) ==
    LET ctx == searchContextDir(sourceDir, contextDir) IN
    probe(f, wd, sourceDir,
          << JoinPath(<<sourceDir, dockerfile>>), JoinPath(<<ctx, dockerfile>>) >>)

\* _search (lines 407-431), called with the captured contextDir as it is.
search(f, wd, sourceDir, contextDir, dockerfile) ==
    LET ctx == searchContextDir(sourceDir, contextDir) IN
    probe(f, wd, sourceDir,
          << JoinPath(<<ctx, dockerfile>>), JoinPath(<<sourceDir, dockerfile>>) >>)

DefaultNames == << <<DOT, SLASH>> \o Containerfile, <<DOT, SLASH>> \o Dockerfile >>

\* The loop of lines 434-444; contextDir is the captured variable.
RECURSIVE searchDefaults(_, _, _, _, _)
searchDefaults(f, wd, sourceDir, contextDir, names) ==
    IF names = <<>> THEN [path |-> <<>>, err |-> NoErr]
    ELSE LET r == search(f, wd, sourceDir, contextDir, Head(names)) IN
         IF r.err # NoErr THEN [path |-> <<>>, err |-> r.err]
         ELSE IF r.path # <<>> THEN r
         ELSE searchDefaults(f, wd, sourceDir,
                             searchContextDir(sourceDir, contextDir), Tail(names))

\* SearchDockerfile (lines 398-448)
SearchDockerfile(f, wd, o) ==
    IF o.SourceDir = <<>> THEN [path |-> <<>>, err |-> ErrMissingSourceDir]
    ELSE LET contextDir == IF o.ContextDir = <<>> THEN DotStr ELSE o.ContextDir IN
         IF o.Dockerfile = <<>>
         THEN searchDefaults(f, wd, o.SourceDir, contextDir, DefaultNames)
         ELSE search(f, wd, o.SourceDir, contextDir, o.Dockerfile)

\* The inputs of a search; the working directory is /s/c.
SourceDirs == { DirS, DirS \o <<SLASH>>, DotDot, DotDot \o <<SLASH>> \o DotDot \o <<SLASH, "s">>,
                DotStr, LinkL, <<>> }
ContextDirs == { <<>>, <<"c">>, DotDot \o <<SLASH, "o">>, Dockerfile }
DockerfileNames == { <<>>, Dockerfile, <<"f">>, Dockerfile \o <<SLASH, "f">> }
OptSets == [SourceDir : SourceDirs, ContextDir : ContextDirs, Dockerfile : DockerfileNames]

SearchInit ==
    /\ fs \in Filesystems
    /\ cwd = DirC
    /\ opts \in OptSets
    /\ found = NoFound
    /\ Params = [Containerfile |-> <<>>, Context |-> <<>>, OutputRef |-> <<>>, Push |-> FALSE]
    /\ containerfilePath = <<>>
    /\ Results = NoResults
    /\ pc = "search"
    /\ err = NoErr
    /\ stdout = <<>>
    /\ calls = <<>>
    /\ stages = <<>>
    /\ cmd = NoCmd
    /\ environ = NoEnviron

CallSearchDockerfile ==
    /\ pc = "search"
    /\ LET r == SearchDockerfile(fs, cwd, opts) IN
         found' = [called |-> TRUE, path |-> r.path, err |-> r.err]
    /\ pc' = "done"
    /\ UNCHANGED <<fs, cwd, opts, Params, containerfilePath, Results, err, stdout,
                   calls, stages, cmd, environ>>

SearchNext == CallSearchDockerfile

SearchSpec == SearchInit /\ [][SearchNext]_vars

-----------------------------------------------------------------------------
(* Properties of Build.Run *)

CallsTo(op) == { i \in DOMAIN calls : calls[i].op = op }
Succeeded(op) == \E i \in CallsTo(op) : calls[i].err = NoErr
FailedCalls == { i \in DOMAIN calls : calls[i].err # NoErr }
Entered(stage) == \E i \in DOMAIN stages : stages[i] = stage
IsPrefixOf(s, t) == Len(s) <= Len(t) /\ SubSeq(t, 1, Len(s)) = s

\* For absolute clean paths: p is d or lies below d.
Under(p, d) == p = d \/ d = Root \/ HasPrefix(p, d \o <<SLASH>>)

\* The absolute location that path s names, every symbolic link followed.
RealLocation(s) == AbsOf(cwd, EvalSymlinks(fs, cwd, s).path)

AllStagesSucceeded ==
    /\ validateParams(fs, cwd, Params) = NoErr
    /\ detectContainerfile(fs, cwd, Params).err = NoErr
    /\ Succeeded("Build")
    /\ Params.Push => Succeeded("Push")
    /\ Succeeded("CreateResultJson")
    /\ FailedCalls = {}

AnyStageFailed ==
    \/ validateParams(fs, cwd, Params) # NoErr
    \/ detectContainerfile(fs, cwd, Params).err # NoErr
    \/ FailedCalls # {}

\* C1: the result JSON is written to standard output at most once, and only
\* when validation, detection, the builder, the pusher (when push is set) and
\* the serialization all succeeded; a run in which a stage failed ends with
\* nothing written and a non-nil error.
C1_ResultOnlyOnSuccess ==
    /\ Len(stdout) <= 1
    /\ stdout # <<>> => AllStagesSucceeded
    /\ (pc = "done" /\ AnyStageFailed) => (stdout = <<>> /\ err # NoErr)

\* A run whose build succeeded and whose push failed has ended, nothing written.
C1_Witness ==
    /\ pc = "done" /\ Succeeded("Build")
    /\ \E i \in CallsTo("Push") : calls[i].err = ErrPush
    /\ stdout = <<>> /\ err = ErrPush

\* C2: once the builder has returned an error the run is over: it returned
\* that error, and neither the pusher nor the results writer was or will be
\* invoked (the builder's call is the last one).
C2_BuildErrorHalts ==
    \A i \in CallsTo("Build") :
        calls[i].err # NoErr =>
            /\ pc = "done" /\ err = calls[i].err
            /\ i = Len(calls)
            /\ CallsTo("Push") = {} /\ CallsTo("CreateResultJson") = {}
            /\ stdout = <<>>

C2_Witness ==
    /\ Params.Push /\ pc = "done"
    /\ \E i \in CallsTo("Build") : calls[i].err = ErrBuild

\* C3: once validation has run: an invalid output reference, a context path
\* that does not exist, or one that exists and is no directory ends the run
\* with the error that names a condition that holds, and no adapter is ever
\* invoked; with a valid reference and a context that is an existing directory
\* validation succeeds and the run goes on to detection.
C3_ValidationHalts ==
    LET refBad == ~IsImageNameValid(GetImageName(Params.OutputRef))
        st == Stat(fs, cwd, Params.Context)
        ctxMissing == st.err = "ENOENT"
        ctxNotDir == st.err = "" /\ st.node.t # "dir"
        ctxIsDir == st.err = "" /\ st.node.t = "dir"
    IN Entered("validateParams") =>
         /\ (refBad \/ ctxMissing \/ ctxNotDir) =>
               /\ pc = "done" /\ calls = <<>> /\ stdout = <<>>
               /\ \/ refBad /\ err = ErrOutputRef
                  \/ ctxMissing /\ err = ErrContextNotExist
                  \/ ctxNotDir /\ err = ErrContextNotDir
         /\ (~refBad /\ ctxIsDir) =>
               /\ err \notin {ErrOutputRef, ErrContextNotExist, ErrContextStat,
                              ErrContextNotDir}
               /\ pc = "done" => Entered("detectContainerfile")

\* A valid reference with a context path that names a file.
C3_Witness ==
    /\ pc = "done" /\ err = ErrContextNotDir
    /\ IsImageNameValid(GetImageName(Params.OutputRef))
    /\ Node(fs, AbsOf(cwd, Params.Context)).t = "file"

\* The context directory holds no entry of this name.
NoEntry(name) == Node(fs, RealLocation(Params.Context) \o <<SLASH>> \o name).t = "none"

\* C4: when detection runs with no explicit containerfile and the context
\* directory holds neither a Containerfile nor a Dockerfile, the run ends with
\* the error "no Containerfile or Dockerfile found" and the builder is never
\* invoked.
C4_NoContainerfileHalts ==
    (/\ Entered("detectContainerfile")
     /\ Params.Containerfile = <<>>
     /\ NoEntry(Containerfile) /\ NoEntry(Dockerfile))
    => (pc = "done" /\ err = ErrNoContainerfile /\ CallsTo("Build") = {})

C4_Witness ==
    /\ Entered("detectContainerfile") /\ Params.Containerfile = <<>>
    /\ NoEntry(Containerfile) /\ NoEntry(Dockerfile)
    /\ pc = "done" /\ err = ErrNoContainerfile

\* C5: the pusher is invoked only when the push flag is set and the builder
\* has succeeded, and then with the output reference as its image; a run that
\* got past the builder with the push flag set has invoked it.
C5_PushIffFlagAndBuilt ==
    /\ \A i \in CallsTo("Push") :
          /\ Params.Push
          /\ \E j \in CallsTo("Build") : j < i /\ calls[j].err = NoErr
          /\ calls[i].Image = Params.OutputRef
    /\ (pc \in {"createResultJson", "done"} /\ Params.Push /\ Succeeded("Build"))
          => CallsTo("Push") # {}

C5_Witness ==
    /\ pc = "done"
    /\ \E i \in CallsTo("Push") : calls[i].Image = Params.OutputRef /\ calls[i].Image # <<>>

\* C6: the record handed to the results writer has image_url equal to the
\* output reference; its digest is the one the pusher returned when push is
\* set, and is empty when push is not set, and then the JSON has no digest.
C6_ResultRecord ==
    /\ \A i \in CallsTo("CreateResultJson") :
          /\ calls[i].Result.ImageUrl = Params.OutputRef
          /\ Params.Push =>
                \E j \in CallsTo("Push") : j < i /\ calls[i].Result.Digest = calls[j].digest
          /\ ~Params.Push => calls[i].Result.Digest = <<>>
    /\ \A k \in DOMAIN stdout :
          /\ stdout[k][1] = <<"image_url", Params.OutputRef>>
          /\ ~Params.Push => Len(stdout[k]) = 1
          /\ Len(stdout[k]) = 2 => (Params.Push /\ stdout[k][2][1] = "digest"
                                    /\ stdout[k][2][2] = Results.Digest)

C6_Witness ==
    /\ Params.Push
    /\ \E i \in CallsTo("CreateResultJson") : calls[i].Result.Digest # <<>>
    /\ stdout # <<>>

\* C7: when the results writer fails, the run ends returning the writer's
\* error with nothing printed, although the builder, and the pusher when push
\* is set, had succeeded.
C7_WriterErrorIsFinal ==
    \A i \in CallsTo("CreateResultJson") :
        calls[i].err # NoErr =>
            /\ pc = "done" /\ err = calls[i].err
            /\ stdout = <<>>
            /\ Succeeded("Build")
            /\ Params.Push => Succeeded("Push")

C7_Witness ==
    /\ pc = "done" /\ err = ErrResultJson /\ Params.Push /\ Succeeded("Push")

\* The stages of a complete run, in order.
StageOrder(push) ==
    <<"logParams", "validateParams", "detectContainerfile", "buildImage">>
    \o (IF push THEN <<"pushImage">> ELSE <<>>) \o <<"createResultJson">>

\* C8: the stages entered so far are an initial part of: parameter logging,
\* validation, detection, builder, pusher (when push is set), serialization,
\* so none is entered early, late or twice; the builder, the pusher and the
\* writer are each invoked at most once, and only in their own stage.
C8_StagesInOrder ==
    /\ IsPrefixOf(stages, StageOrder(Params.Push))
    /\ \A op \in {"Build", "Push", "CreateResultJson"} : Cardinality(CallsTo(op)) <= 1
    /\ Len(calls) = Cardinality({ i \in DOMAIN stages :
                        stages[i] \in {"buildImage", "pushImage", "createResultJson"} })

C8_Witness ==
    /\ pc = "done" /\ Params.Push /\ stages = StageOrder(TRUE) /\ Len(calls) = 3

\* C10: the Containerfile handed to the builder lies, every symbolic link
\* followed, inside the source tree.  Stated for auto-detection, where the
\* tree searched is the context directory: a detected file that is a link
\* leading out of it must end the run before the builder is invoked.
C10_ContainerfileInsideSourceTree ==
    \A i \in CallsTo("Build") :
        Params.Containerfile = <<>> =>
            Under(RealLocation(calls[i].Containerfile), RealLocation(calls[i].ContextDir))

-----------------------------------------------------------------------------
(* Properties of SearchDockerfile *)

\* C9: a path SearchDockerfile returns lies, every symbolic link followed,
\* inside the resolved source directory, whatever the source directory
\* argument is (absolute, relative, or reached through a link).
C9_NeverOutsideSourceDir ==
    (found.called /\ found.err = NoErr /\ found.path # <<>>)
    => Under(RealLocation(found.path), RealLocation(opts.SourceDir))

-----------------------------------------------------------------------------
(* Properties of file discovery *)

\* Path s names something, every symbolic link followed.
Exists(s) == EvalSymlinks(fs, cwd, s).err = ""

\* Nothing is at path s: resolving it fails with "does not exist".
Missing(s) == EvalSymlinks(fs, cwd, s).err = "ENOENT"

\* Resolving path s fails, and not with "does not exist".
Fails(s) == EvalSymlinks(fs, cwd, s).err \notin {"", "ENOENT"}

\* Path s names, every symbolic link followed, something that is no directory.
NamesFile(s) == Exists(s) /\ Node(fs, RealLocation(s)).t = "file"

\* The context directory of a search, "." when none is given.
CtxOf == IF opts.ContextDir = <<>> THEN DotStr ELSE opts.ContextDir

\* The two places where a search looks for name.
InCtx(name) == JoinPath(<<opts.SourceDir, CtxOf, name>>)
InSrc(name) == JoinPath(<<opts.SourceDir, name>>)

\* The search ended on candidate c: it returned the resolved path of c, or
\* refused c as lying outside of the source directory.
DecidedBy(c) ==
    \/ found.err = NoErr /\ found.path = EvalSymlinks(fs, cwd, c).path
    \/ found.err = ErrOutside /\ found.path = <<>>

DefaultSearchDone == found.called /\ opts.SourceDir # <<>> /\ opts.Dockerfile = <<>>
ExplicitSearchDone == found.called /\ opts.SourceDir # <<>> /\ opts.Dockerfile # <<>>

\* C11 (SearchDockerfile): with no explicit file, when the searched directory
\* join(sourceDir, contextDir) holds both a Containerfile and a Dockerfile the
\* search ends on the Containerfile; when it holds only a Dockerfile (and the
\* source directory holds no Containerfile either) it ends on that Dockerfile.
C11_ContainerfileBeforeDockerfile ==
    DefaultSearchDone =>
        /\ (NamesFile(InCtx(Containerfile)) /\ NamesFile(InCtx(Dockerfile)))
              => DecidedBy(InCtx(Containerfile))
        /\ (/\ Missing(InCtx(Containerfile)) /\ Missing(InSrc(Containerfile))
            /\ NamesFile(InCtx(Dockerfile)))
              => DecidedBy(InCtx(Dockerfile))

\* C11 (Build.detectContainerfile): with no explicit file, when the context
\* directory holds both files the Containerfile is the path stored; when it
\* holds only a Dockerfile the Dockerfile is.
C11_DetectContainerfileFirst ==
    (/\ Entered("detectContainerfile") /\ Params.Containerfile = <<>>
     /\ NamesFile(JoinPath(<<Params.Context, Dockerfile>>)))
    => containerfilePath =
       IF NamesFile(JoinPath(<<Params.Context, Containerfile>>))
       THEN JoinPath(<<Params.Context, Containerfile>>)
       ELSE JoinPath(<<Params.Context, Dockerfile>>)

\* C12: with an explicit containerfile, detection stores the path exactly as
\* given whenever it names an existing non-directory; it stores the path
\* joined onto the context directory only when the bare path does not and the
\* joined one does; when neither does, the run ends with "not found" and the
\* stored path stays unset.
C12_ExplicitContainerfile ==
    (Entered("detectContainerfile") /\ Params.Containerfile # <<>>) =>
        LET bare == Params.Containerfile
            joined == JoinPath(<<Params.Context, Params.Containerfile>>)
        IN /\ NamesFile(bare) => containerfilePath = bare
           /\ (~NamesFile(bare) /\ NamesFile(joined)) => containerfilePath = joined
           /\ (~NamesFile(bare) /\ ~NamesFile(joined)) =>
                 (pc = "done" /\ err = ErrNotFound /\ containerfilePath = <<>>
                  /\ calls = <<>>)

\* The file exists at both places and the bare path was taken.
C12_Witness ==
    /\ Entered("detectContainerfile") /\ Params.Containerfile = Dockerfile
    /\ Params.Context = <<"c">>
    /\ NamesFile(Dockerfile) /\ NamesFile(<<"c", SLASH>> \o Dockerfile)
    /\ containerfilePath = Dockerfile

NoCandidateExists ==
    IF opts.Dockerfile # <<>>
    THEN Missing(InCtx(opts.Dockerfile)) /\ Missing(InSrc(opts.Dockerfile))
    ELSE \A n \in {Containerfile, Dockerfile} : Missing(InCtx(n)) /\ Missing(InSrc(n))

\* C14 as claimed: a search that finds no candidate fails with an error, and
\* no search reports success without a path.
C14_FailsWhenNothingFound ==
    (found.called /\ opts.SourceDir # <<>>) =>
        /\ NoCandidateExists => found.err # NoErr
        /\ found.err = NoErr => found.path # <<>>

\* C14 as amended: a search that finds no candidate returns the empty path
\* and no error, with an explicit file as without.
C14_EmptyPathWhenNothingFound ==
    (found.called /\ opts.SourceDir # <<>> /\ NoCandidateExists)
    => (found.err = NoErr /\ found.path = <<>>)

C14_Witness ==
    /\ found.called /\ opts.SourceDir = DirS /\ opts.Dockerfile = <<"f">>
    /\ NoCandidateExists /\ found.err = NoErr /\ found.path = <<>>

\* C15 (SearchDockerfile): the path a search returns does not name a
\* directory.
C15_NeverADirectory ==
    (found.called /\ found.err = NoErr /\ found.path # <<>>)
    => Node(fs, RealLocation(found.path)).t # "dir"

\* C15 (Build.detectContainerfile): the path stored does not name a
\* directory; a candidate that is a directory is passed over.
C15_DetectNeverADirectory ==
    containerfilePath # <<>> => NamesFile(containerfilePath)

\* C16: the builder is invoked only once detection has succeeded, with the
\* path detection stored (never empty), the bound context directory and the
\* bound output reference.
C16_BuilderArguments ==
    \A i \in CallsTo("Build") :
        /\ Entered("detectContainerfile")
        /\ detectContainerfile(fs, cwd, Params).err = NoErr
        /\ calls[i].Containerfile = containerfilePath
        /\ calls[i].Containerfile # <<>>
        /\ NamesFile(calls[i].Containerfile)
        /\ calls[i].ContextDir = Params.Context
        /\ calls[i].OutputRef = Params.OutputRef

C16_Witness ==
    \E i \in CallsTo("Build") :
        /\ calls[i].Containerfile = <<"c", SLASH>> \o Dockerfile
        /\ calls[i].ContextDir = <<"c">>
        /\ calls[i].OutputRef = <<"a", SLASH, "b", ":", "t">>

\* The first of the candidates cs that exists, every one before it missing;
\* <<>> when there is none.
RECURSIVE FirstExisting(_)
FirstExisting(cs) ==
    IF cs = <<>> THEN <<>>
    ELSE IF Exists(Head(cs)) THEN <<Head(cs)>>
    ELSE IF Missing(Head(cs)) THEN FirstExisting(Tail(cs))
    ELSE <<>>

\* C20: with no explicit file the search ends on the first that exists of
\* join(sourceDir, contextDir, Containerfile), join(sourceDir, Containerfile),
\* join(sourceDir, contextDir, Dockerfile), join(sourceDir, Dockerfile); so a
\* Dockerfile that exists only in the context directory is found.
C20_FourCandidatesInOrder ==
    DefaultSearchDone =>
        LET first == FirstExisting(<<InCtx(Containerfile), InSrc(Containerfile),
                                     InCtx(Dockerfile), InSrc(Dockerfile)>>)
        IN first # <<>> => DecidedBy(first[1])

\* The search ended on the resolution error of a candidate.
EndedOnError == found.err = ErrEvalSymlink /\ found.path = <<>>

\* C21: a candidate whose resolution fails with "does not exist" is passed
\* over and the next one is probed; a candidate whose resolution fails in
\* any other way ends the search with that error, whatever comes after it.
C21_OnlyNotExistIsSkipped ==
    /\ ExplicitSearchDone =>
          LET c1 == InCtx(opts.Dockerfile)
              c2 == InSrc(opts.Dockerfile)
          IN /\ Fails(c1) => EndedOnError
             /\ (Missing(c1) /\ Fails(c2)) => EndedOnError
             /\ (Missing(c1) /\ Exists(c2)) => DecidedBy(c2)
             /\ (Missing(c1) /\ Missing(c2)) => found.err = NoErr
    /\ DefaultSearchDone =>
          LET c1 == InCtx(Containerfile)
              c2 == InSrc(Containerfile)
          IN /\ Fails(c1) => EndedOnError
             /\ (Missing(c1) /\ Fails(c2)) => EndedOnError
             /\ (Missing(c1) /\ Exists(c2)) => DecidedBy(c2)
    /\ found.called =>
          (EndedOnError =>
             \E n \in {opts.Dockerfile, Containerfile, Dockerfile} :
                Fails(InCtx(n)) \/ Fails(InSrc(n))
                \/ Fails(JoinPath(<<opts.SourceDir, opts.SourceDir, CtxOf, n>>)))

\* The first candidate fails to resolve under a regular file while the
\* second exists: the search ended on the error.
C21_Witness ==
    /\ ExplicitSearchDone /\ opts.SourceDir = DirS
    /\ Fails(InCtx(opts.Dockerfile)) /\ Exists(InSrc(opts.Dockerfile))
    /\ EndedOnError

\* The first candidate is missing and passed over, the second fails to
\* resolve: the search ended on the error of the second.
C21_SecondFails ==
    /\ ExplicitSearchDone
    /\ Missing(InCtx(opts.Dockerfile)) /\ Fails(InSrc(opts.Dockerfile))
    /\ EndedOnError

-----------------------------------------------------------------------------
(* Properties of the build command *)

\* NewBuild has returned a Build and Run has started on it.
BuildCreated == pc \notin {"NewBuild", "fatal"}

\* C17: the arguments given after "--" reach the builder invocation made by
\* Run, the same values in the same order.
C17_ExtraArgsPassedThrough ==
    \A i \in CallsTo("Build") : calls[i].ExtraArgs = cmd.args

\* The text the three sources give a parameter, by precedence.
BoundText(flag, envVar, default) ==
    IF cmd.flags[flag].set THEN cmd.flags[flag].v
    ELSE IF environ[envVar].set THEN environ[envVar].v
    ELSE default

C19_MissingOutputRefStopsCommand ==
    (/\ pc # "NewBuild"
     /\ ~cmd.flags["output-ref"].set
     /\ ~environ["KBC_BUILD_OUTPUT_REF"].set)
    => /\ pc = "fatal"
       /\ err = "required parameter output-ref is not set"
       /\ Params = ZeroParams
       /\ stages = <<>> /\ calls = <<>>
       /\ containerfilePath = <<>> /\ stdout = <<>> /\ Results = NoResults

\* The command stopped for the missing output-ref with every other parameter
\* supplied.
C19_Witness ==
    /\ pc = "fatal" /\ err = "required parameter output-ref is not set"
    /\ ~cmd.flags["output-ref"].set /\ ~environ["KBC_BUILD_OUTPUT_REF"].set
    /\ cmd.flags["push"] = Given(<<"true">>)
    /\ cmd.flags["context"].set /\ cmd.flags["containerfile"].set

-----------------------------------------------------------------------------
(* Properties of Build.Results *)

\* Run has returned an error that is not the result writer's.
FailedBeforeWriter == pc = "done" /\ err # NoErr /\ CallsTo("CreateResultJson") = {}

\* C22: when Run returns because validation, detection, the builder or the
\* pusher failed, Build.Results has an empty image URL and an empty digest.
C22_ResultsEmptyOnFailure ==
    FailedBeforeWriter => (Results.ImageUrl = <<>> /\ Results.Digest = <<>>)

\* C22, the part before the builder has succeeded: Build.Results is empty as
\* long as no builder call has succeeded, and so when validation, detection
\* or the builder fails.
C22_ResultsEmptyUntilBuilt ==
    ~Succeeded("Build") => Results = NoResults

\* C22, the part after serialization: once the writer has been called,
\* Build.Results is the record it was handed.
C22_ResultsAsSerialized ==
    \A i \in CallsTo("CreateResultJson") : Results = calls[i].Result

=============================================================================
